---- MODULE Spec2Model ----
(***************************************************************************)
(* Model of the rwui button widget (src/src/button.rs): the event state    *)
(* machine of Button::consume_event, the geometry setters, and the         *)
(* per-frame Button::update, on top of the Animated<T> interpolation       *)
(* engine of the rwcommon crate; and of the window application            *)
(* (src/src/window_app.rs): WindowApp::new and the window_event handler.   *)
(*                                                                         *)
(* Numbers.  Geometry is f32 in the program; the model keeps integer       *)
(* coordinates (whole pixels) and applies the f32 rounding AsF32 wherever  *)
(* the program narrows or adds in single precision.  Time is in            *)
(* milliseconds.  The overlay alpha is kept in thousandths (0.1 is 100):   *)
(* every value the target takes is 0.1f added to or subtracted from a      *)
(* small multiple of 0.1f, which is exact in f32.                          *)
(***************************************************************************)
EXTENDS Integers, Sequences, FiniteSets, TLC

VARIABLES
    position,         \* Button::position : Animated<Point2<f32>>
    size,             \* Button::size : Animated<Vector2<f32>>
    overlay_alpha,    \* Button::overlay_alpha : Animated<f32>
    z_index,          \* Button::z_index
    hovered,          \* Button::hovered
    pressed,          \* Button::pressed
    slots,            \* which of the four Option<fn> callback slots are Some
    sprite,           \* the Sprite's position, size, overlay alpha and z index
    text,             \* the Text's position, size and z
    called,           \* callbacks invoked by the last operation, in order
    ret,              \* value returned by the last consume_event call
    last_event,       \* the event delivered by the last operation, if any
    cursor,           \* position of the most recent CursorMoved event
    hovered_at_press, \* history: value of hovered when pressed was last set
    setter_calls,     \* history: number of setter calls so far
    planned,          \* history: the targets the setter calls add up to
    nest,             \* callbacks that call consume_event: the nested calls
    app               \* the WindowApp: construction result, hooks, calls made

vars == <<position, size, overlay_alpha, z_index, hovered, pressed, slots,
          sprite, text, called, ret, last_event, cursor,
          hovered_at_press, setter_calls, planned, nest, app>>

----------------------------------------------------------------------------
(* Bounds of the model. *)

\* Number of setter calls explored in one behaviour.
MaxSetterCalls == 2

\* Calls of consume_event nested in one another that are followed.
MaxDepth == 3

----------------------------------------------------------------------------
(* Single-precision arithmetic on whole numbers. *)

\* Smallest power of two p such that n < p * 2^24, for n >= 0.
RECURSIVE Ulp(_, _)
Ulp(n, p) == IF n < p * (2 ^ 24) THEN p ELSE Ulp(n, 2 * p)

\* Round a natural number to the nearest f32, ties to even.
RoundNat(n) ==
    LET u == Ulp(n, 1)
        q == n \div u
        r == n % u
    IN  IF 2 * r < u THEN q * u
        ELSE IF 2 * r > u THEN (q + 1) * u
        ELSE IF q % 2 = 0 THEN q * u
        ELSE (q + 1) * u

\* `x as f32` for a whole number x.
AsF32(x) == IF x >= 0 THEN RoundNat(x) ELSE 0 - RoundNat(0 - x)

\* f32 addition of two f32 values.
F32Add(a, b) == AsF32(a + b)

\* Point2<f32> / Vector2<f32>.
Vec(a, b) == [x |-> a, y |-> b]

VecAdd(p, d) == Vec(F32Add(p.x, d.x), F32Add(p.y, d.y))

----------------------------------------------------------------------------
(* Animated<T> of the rwcommon crate: a value, its target, and the         *)
(* interpolation from the value held when the target was set.              *)

\* Animated::new(initial, duration): current = target = initial.
AnimatedNew(initial, duration) ==
    [current |-> initial, target |-> initial, start |-> initial,
     elapsed |-> 0, duration |-> duration]

\* Animated::set_target: the interpolation restarts from the current value.
AnimatedSetTarget(a, new_target) ==
    [a EXCEPT !.target = new_target, !.start = a.current, !.elapsed = 0]

\* Animated::complete: the current value has reached the target.
AnimatedComplete(a) == a.current = a.target

\* Linear interpolation from s to t at fraction n / d, computed without
\* forming (t - s) * n.
Lerp(s, t, n, d) ==
    LET q == (t - s) \div d
        r == (t - s) % d
    IN  AsF32(s + q * n + (r * n) \div d)

\* The interpolated value at n / d is a whole number.
LerpExact(s, t, n, d) == (((t - s) % d) * n) % d = 0

LerpVec(s, t, n, d) == Vec(Lerp(s.x, t.x, n, d), Lerp(s.y, t.y, n, d))

LerpVecExact(s, t, n, d) == LerpExact(s.x, t.x, n, d) /\ LerpExact(s.y, t.y, n, d)

\* Variant: only the time of the last frame counts.
AnimatedElapsedLastFrame(a, elapsed) ==
    IF elapsed >= a.duration THEN a.duration ELSE elapsed

\* Time accumulated since the target was set, clamped to the duration.
AnimatedElapsed(a, elapsed) ==
    IF a.elapsed + elapsed >= a.duration THEN a.duration
    ELSE a.elapsed + elapsed

\* Animated<f32>::update.  An animation that has run for its duration is
\* at rest on its target, as a new one is.
AnimatedUpdate(a, elapsed) ==
    LET n == AnimatedElapsed(a, elapsed)
    IN  IF AnimatedComplete(a) THEN a
        ELSE IF n >= a.duration THEN AnimatedNew(a.target, a.duration)
        ELSE [a EXCEPT !.elapsed = n,
                       !.current = Lerp(a.start, a.target, n, a.duration)]

\* Animated<Point2<f32>>::update and Animated<Vector2<f32>>::update.
AnimatedUpdateVec(a, elapsed) ==
    LET n == AnimatedElapsed(a, elapsed)
    IN  IF AnimatedComplete(a) THEN a
        ELSE IF n >= a.duration THEN AnimatedNew(a.target, a.duration)
        ELSE [a EXCEPT !.elapsed = n,
                       !.current = LerpVec(a.start, a.target, n, a.duration)]

\* The frame time keeps every interpolated value on the model's grid.
ElapsedExact(elapsed) ==
    /\ LerpVecExact(position.start, position.target,
                    AnimatedElapsed(position, elapsed), position.duration)
    /\ LerpVecExact(size.start, size.target,
                    AnimatedElapsed(size, elapsed), size.duration)
    /\ LerpExact(overlay_alpha.start, overlay_alpha.target,
                 AnimatedElapsed(overlay_alpha, elapsed), overlay_alpha.duration)

----------------------------------------------------------------------------
(* Inputs. *)

\* A coordinate beyond the range in which f32 holds every whole number.
Far == 2 ^ 24

\* ButtonDescriptor::position.
DescriptorPositions == {Vec(0, 0)}

\* Arguments of set_position.
Positions == {Vec(8, 4)}

\* ButtonDescriptor::size.
DescriptorSizes == {Vec(8, 4)}

\* Arguments of set_size.
Sizes == {Vec(Far, 4)}

\* Arguments of set_position_offset.
PositionOffsets == {Vec(4, 4), Vec(0 - 4, 0)}

\* Arguments of set_size_offset.
SizeOffsets == {Vec(0 - 4, 0)}

\* ButtonDescriptor::z_index.
DescriptorZIndices == {1}

\* Arguments of set_z_index.
ZIndices == {2}

\* Positions carried by CursorMoved.  (0,0) and (8,4) are the corners of
\* the rectangle at (0,0) with size (8,4) and lie on its four edges; (8,4)
\* is also the top left corner of the rectangle at (8,4).  (9,2) is one
\* pixel beyond the right edge of the first rectangle and above the top
\* edge of the second; (4,5) is one pixel beyond the bottom edge of the
\* first and left of the left edge of the second.  (Far + 1, 2) is one
\* pixel beyond the right edge of the rectangle at (0,0) of width Far.
CursorPositions ==
    {Vec(0, 0), Vec(8, 4), Vec(9, 2), Vec(4, 5), Vec(Far + 1, 2)}

\* Frame times passed to update, in milliseconds.
Elapsed == {100, 200}

CallbackNames == {"on_press", "on_release", "on_enter", "on_exit"}

\* The populated callback slots of a descriptor.
SlotChoices == {CallbackNames, {"on_press", "on_exit"}}

NoPosition == Vec(0, 0)

\* winit::event::WindowEvent, as far as the button reads it.
Event(kind, pos, state, button) ==
    [kind |-> kind, position |-> pos, state |-> state, button |-> button]

CursorMoved(pos) == Event("CursorMoved", pos, "None", "None")

MouseInput(state, button) == Event("MouseInput", NoPosition, state, button)

OtherEvent(kind) == Event(kind, NoPosition, "None", "None")

NoEvent == OtherEvent("None")

ElementStates == {"Pressed", "Released"}

MouseButtons == {"Left", "Right"}

OtherKinds == {"CursorLeft"}

Events ==
    {CursorMoved(p) : p \in CursorPositions}
    \cup {MouseInput(st, b) : st \in ElementStates, b \in MouseButtons}
    \cup {OtherEvent(k) : k \in OtherKinds}

----------------------------------------------------------------------------
(* Button. *)

\* Duration::milliseconds(200) of position and size.
GeometryDuration == 200

\* Duration::milliseconds(100) of overlay_alpha.
OverlayDuration == 100

\* The 0.1 added to or subtracted from the overlay target, in thousandths.
OverlayStep == 100

\* Callbacks that only run: no call of consume_event is nested in another.
NoNesting == [mode |-> "none", depth |-> 0, nested_calls |-> 0,
              pending |-> NoEvent]

\* No WindowApp has been constructed.
NoApp == [result |-> "none", env |-> {}, built |-> {}, hooks |-> {},
          event |-> "None", calls |-> <<>>]

\* Button::new
ButtonNew ==
    \E p \in DescriptorPositions, s \in DescriptorSizes, z \in DescriptorZIndices,
       cb \in SlotChoices :
        /\ position = AnimatedNew(p, GeometryDuration)
        /\ size = AnimatedNew(s, GeometryDuration)
        /\ z_index = z
        /\ hovered = FALSE
        /\ pressed = FALSE
        /\ overlay_alpha = AnimatedNew(0, OverlayDuration)
        /\ slots = cb
        /\ sprite = [position |-> p, size |-> s, overlay_alpha |-> 0,
                     z_index |-> z]
        /\ text = [position |-> p, size |-> s, z |-> z - 1]
        /\ called = <<>>
        /\ ret = FALSE
        /\ last_event = NoEvent
        /\ cursor = <<>>
        /\ hovered_at_press = FALSE
        /\ setter_calls = 0
        /\ planned = [position |-> p, size |-> s]

\* A button whose callbacks only run, and no WindowApp.
Init ==
    /\ ButtonNew
    /\ nest = NoNesting
    /\ app = NoApp

\* The cursor is on the button: the comparison of consume_event, in f32.
CursorOnButton(p, button_position, button_size) ==
    LET right_coord == F32Add(button_position.x, button_size.x)
        down_coord == F32Add(button_position.y, button_size.y)
    IN  /\ button_position.x <= AsF32(p.x)
        /\ AsF32(p.x) <= right_coord
        /\ button_position.y <= AsF32(p.y)
        /\ AsF32(p.y) <= down_coord

\* Variant: the hit test reads the position the button is moving to.
target_button_position == position.target

\* The rectangle the hit test of consume_event reads.
current_button_position == position.current

current_button_size == size.current

\* Variant: the slot is called whether or not a callback was given.
InvokeAlways(slot) == <<slot>>

\* if let Some(f) = self.<slot>.as_ref() { f(self, data) }
Invoke(slot) == IF slot \in slots THEN <<slot>> ELSE <<>>

\* self.overlay_alpha.set_target(self.overlay_alpha.target() + 0.1)
OverlayUp(a) == AnimatedSetTarget(a, a.target + OverlayStep)

\* Variant: leaving a state resets the overlay target to its initial value.
OverlayReset(a) == AnimatedSetTarget(a, 0)

\* self.overlay_alpha.set_target(self.overlay_alpha.target() - 0.1)
OverlayDown(a) == AnimatedSetTarget(a, a.target - OverlayStep)

\* Variant: every move inside the rectangle is an enter.
EnterAlways == TRUE

\* Guard of the hover-enter transition.
EnterGuard == ~hovered

\* Variant: every move outside the rectangle is an exit.
ExitAlways == TRUE

\* Guard of the hover-exit transition.
ExitGuard == hovered

\* Variant: every mouse button is processed.
AnyButtonProcessed(button) == TRUE

\* Only the left mouse button is processed.
ButtonProcessed(button) == button = "Left"

\* Variant: any left-button event ends a press.
ReleaseGuardAnyState(state) == TRUE

\* Variant: a release outside the button is not a release.
ReleaseGuardHovered(state) == hovered /\ state = "Released"

\* Guard of the release transition, taken when self.pressed.
ReleaseGuard(state) == state = "Released"

\* Variant: a press is accepted wherever the cursor is.
PressGuardAnywhere(state) == state = "Pressed"

\* Guard of the press transition, taken when !self.pressed.
PressGuard(state) == hovered /\ state = "Pressed"

\* Callback slot read on the release transition.
ReleaseSlot == "on_press"

\* Callback slot read on the press transition.
PressSlot == "on_release"

\* The match arm of WindowEvent::CursorMoved.
OnCursorMoved(p) ==
    IF CursorOnButton(p, current_button_position, current_button_size)
    THEN IF EnterGuard
         THEN /\ hovered' = TRUE
              /\ overlay_alpha' = OverlayUp(overlay_alpha)
              /\ called' = Invoke("on_enter")
              /\ ret' = TRUE
         ELSE /\ UNCHANGED <<hovered, overlay_alpha>>
              /\ called' = <<>>
              /\ ret' = FALSE
    ELSE IF ExitGuard
         THEN /\ hovered' = FALSE
              /\ overlay_alpha' = OverlayDown(overlay_alpha)
              /\ called' = Invoke("on_exit")
              /\ ret' = TRUE
         ELSE /\ UNCHANGED <<hovered, overlay_alpha>>
              /\ called' = <<>>
              /\ ret' = FALSE

\* An event that matches no transition leaves the button as it is.
Ignored ==
    /\ UNCHANGED <<pressed, overlay_alpha, hovered_at_press>>
    /\ called' = <<>>
    /\ ret' = FALSE

\* The match arm of WindowEvent::MouseInput.
OnMouseInput(state, button) ==
    IF ButtonProcessed(button)
    THEN IF pressed
         THEN IF ReleaseGuard(state)
              THEN /\ pressed' = FALSE
                   /\ overlay_alpha' = OverlayDown(overlay_alpha)
                   /\ called' = Invoke(ReleaseSlot)
                   /\ ret' = TRUE
                   /\ UNCHANGED hovered_at_press
              ELSE Ignored
         ELSE IF PressGuard(state)
              THEN /\ pressed' = TRUE
                   /\ overlay_alpha' = OverlayUp(overlay_alpha)
                   /\ called' = Invoke(PressSlot)
                   /\ ret' = TRUE
                   /\ hovered_at_press' = hovered
              ELSE Ignored
    ELSE Ignored

\* The events a callback that calls consume_event on its own button hands
\* to it, once consume_event(event) has invoked the callback: the same event
\* again, or the event of the opposite transition.
Redelivered(mode, event) ==
    IF mode = "same" THEN {event}
    ELSE IF event.kind = "CursorMoved"
    THEN {CursorMoved(p) : p \in
            {q \in CursorPositions :
                CursorOnButton(q, current_button_position,
                               current_button_size)
                # CursorOnButton(event.position, current_button_position,
                                 current_button_size)}}
    ELSE {MouseInput(IF event.state = "Pressed" THEN "Released"
                     ELSE "Pressed", event.button)}

\* The calls of consume_event nested in one another once consume_event(event)
\* has gone through its callbacks, `invoked`: a callback that ran and calls
\* consume_event opens one more nested call, anything else returns all of
\* them.
Nested(event, invoked) ==
    LET calls == IF nest.depth = 0 THEN 0 ELSE nest.nested_calls + 1
    IN  IF nest.mode = "none" \/ invoked = <<>>
        THEN {[nest EXCEPT !.depth = 0, !.nested_calls = calls,
                           !.pending = NoEvent]}
        ELSE {[nest EXCEPT !.depth = @ + 1, !.nested_calls = calls,
                           !.pending = next] :
                next \in Redelivered(nest.mode, event)}

\* Button::consume_event
consume_event(event) ==
    /\ IF event.kind = "CursorMoved"
       THEN /\ OnCursorMoved(event.position)
            /\ cursor' = <<event.position>>
            /\ UNCHANGED <<pressed, hovered_at_press>>
       ELSE IF event.kind = "MouseInput"
       THEN /\ OnMouseInput(event.state, event.button)
            /\ UNCHANGED <<hovered, cursor>>
       ELSE /\ called' = <<>>
            /\ ret' = FALSE
            /\ UNCHANGED <<hovered, pressed, overlay_alpha, cursor,
                           hovered_at_press>>
    /\ last_event' = event
    /\ nest' \in Nested(event, called')
    /\ UNCHANGED <<position, size, z_index, slots, sprite, text, setter_calls,
                   planned, app>>

\* What the operations other than consume_event leave behind.
NoEventDelivered ==
    /\ called' = <<>>
    /\ ret' = FALSE
    /\ last_event' = NoEvent
    /\ UNCHANGED <<cursor, hovered_at_press, nest, app>>

\* Variant: the button jumps to the new position.
SetPositionSnap(p) == AnimatedNew(p, position.duration)

\* Button::set_position, as the new value of self.position.
SetPosition(p) == AnimatedSetTarget(position, p)

\* Button::set_size, as the new value of self.size.
SetSize(s) == AnimatedSetTarget(size, s)

\* Button::set_position
set_position(p) ==
    /\ setter_calls < MaxSetterCalls
    /\ position' = SetPosition(p)
    /\ planned' = [planned EXCEPT !.position = p]
    /\ setter_calls' = setter_calls + 1
    /\ NoEventDelivered
    /\ UNCHANGED <<size, overlay_alpha, z_index, hovered, pressed, slots,
                   sprite, text>>

\* What an offset is not added to: the value the animation has reached.
OffsetBaseCurrent(animated) == animated.current

\* What set_position_offset and set_size_offset add the offset to.
OffsetBase(animated) == animated.target

\* Button::set_position_offset
set_position_offset(offset) ==
    /\ setter_calls < MaxSetterCalls
    /\ position' = SetPosition(VecAdd(OffsetBase(position), offset))
    /\ planned' = [planned EXCEPT !.position = Vec(@.x + offset.x,
                                                   @.y + offset.y)]
    /\ setter_calls' = setter_calls + 1
    /\ NoEventDelivered
    /\ UNCHANGED <<size, overlay_alpha, z_index, hovered, pressed, slots,
                   sprite, text>>

\* Button::set_size
set_size(s) ==
    /\ setter_calls < MaxSetterCalls
    /\ size' = SetSize(s)
    /\ planned' = [planned EXCEPT !.size = s]
    /\ setter_calls' = setter_calls + 1
    /\ NoEventDelivered
    /\ UNCHANGED <<position, overlay_alpha, z_index, hovered, pressed, slots,
                   sprite, text>>

\* Button::set_size_offset
set_size_offset(offset) ==
    /\ setter_calls < MaxSetterCalls
    /\ size' = SetSize(VecAdd(OffsetBase(size), offset))
    /\ planned' = [planned EXCEPT !.size = Vec(@.x + offset.x,
                                               @.y + offset.y)]
    /\ setter_calls' = setter_calls + 1
    /\ NoEventDelivered
    /\ UNCHANGED <<position, overlay_alpha, z_index, hovered, pressed, slots,
                   sprite, text>>

\* Button::set_z_index
set_z_index(z) ==
    /\ setter_calls < MaxSetterCalls
    /\ sprite' = [sprite EXCEPT !.z_index = z]
    /\ setter_calls' = setter_calls + 1
    /\ NoEventDelivered
    /\ UNCHANGED <<position, size, overlay_alpha, z_index, hovered, pressed,
                   slots, text, planned>>

\* Button::update
update(elapsed) ==
    /\ ElapsedExact(elapsed)
    /\ position' = IF ~AnimatedComplete(position)
                   THEN AnimatedUpdateVec(position, elapsed) ELSE position
    /\ size' = IF ~AnimatedComplete(size)
               THEN AnimatedUpdateVec(size, elapsed) ELSE size
    /\ overlay_alpha' = IF ~AnimatedComplete(overlay_alpha)
                        THEN AnimatedUpdate(overlay_alpha, elapsed)
                        ELSE overlay_alpha
    /\ sprite' = [sprite EXCEPT
                    !.position = IF ~AnimatedComplete(position)
                                 THEN position'.current ELSE @,
                    !.size = IF ~AnimatedComplete(size)
                             THEN size'.current ELSE @,
                    !.overlay_alpha = IF ~AnimatedComplete(overlay_alpha)
                                      THEN overlay_alpha'.current ELSE @]
    /\ NoEventDelivered
    /\ UNCHANGED <<z_index, hovered, pressed, slots, text, setter_calls,
                   planned>>

Next ==
    \/ \E event \in Events : consume_event(event)
    \/ \E elapsed \in Elapsed : update(elapsed)
    \/ \E p \in Positions : set_position(p)
    \/ \E offset \in PositionOffsets : set_position_offset(offset)
    \/ \E s \in Sizes : set_size(s)
    \/ \E offset \in SizeOffsets : set_size_offset(offset)
    \/ \E z \in ZIndices : set_z_index(z)

Spec == Init /\ [][Next]_vars

\* Events that take the button through its four transitions: the cursor
\* on a corner of the rectangle at (0,0) and beyond its right edge, the
\* left button pressed and released.
LiveEvents ==
    {CursorMoved(Vec(0, 0)), CursorMoved(Vec(9, 2)),
     MouseInput("Pressed", "Left"), MouseInput("Released", "Left")}

LiveNext ==
    \/ \E event \in LiveEvents : consume_event(event)
    \/ \E elapsed \in Elapsed : update(elapsed)
    \/ \E p \in Positions : set_position(p)
    \/ \E offset \in PositionOffsets : set_position_offset(offset)
    \/ \E s \in Sizes : set_size(s)
    \/ \E offset \in SizeOffsets : set_size_offset(offset)
    \/ \E z \in ZIndices : set_z_index(z)

\* The frame tick: the event loop calls update once per frame, so a call
\* of update that would change something is not put off for ever.
LiveSpec ==
    /\ Init
    /\ [][LiveNext]_vars
    /\ WF_vars(\E elapsed \in Elapsed : update(elapsed))

\* Events and frames only: no setter is called.
ToggleNext ==
    \/ \E event \in Events : consume_event(event)
    \/ \E elapsed \in Elapsed : update(elapsed)

\* The user keeps toggling: the cursor keeps entering and leaving the
\* button and the left button keeps being pressed and released, while
\* frames keep coming.
ToggleSpec ==
    /\ Init
    /\ [][ToggleNext]_vars
    /\ \A event \in LiveEvents : SF_vars(consume_event(event))
    /\ WF_vars(\E elapsed \in Elapsed : update(elapsed))

----------------------------------------------------------------------------
(* WindowApp. *)

\* What WindowApp::new creates, in the order in which it creates it.
Steps == {"event_loop", "window", "renderer"}

\* The hooks of a WindowAppDescriptor.
HookNames == {"on_before_events", "on_after_events", "on_before_draw",
              "on_after_draw"}

\* winit::event::WindowEvent, as far as window_event reads it.
AppEvents == {"CloseRequested", "RedrawRequested", "Resized", "CursorMoved"}

\* EventLoop::builder().build().map_err(..)?, then SimpleWindowBuilder::
\* build, which returns the window and the display and no Result, then
\* Renderer::new(..).map_err(..)?.  `env` holds the steps that succeed when
\* tried; a window that cannot be created leaves build no value to return.
NewResult(env) ==
    IF "event_loop" \notin env THEN "Err(EventLoopCreation)"
    ELSE IF "window" \notin env THEN "panic"
    ELSE IF "renderer" \notin env THEN "Err(RendererCreation)"
    ELSE "Ok"

\* The steps WindowApp::new has gone through successfully when it ends.
NewBuilt(env) ==
    IF "event_loop" \notin env THEN {}
    ELSE IF "window" \notin env THEN {"event_loop"}
    ELSE IF "renderer" \notin env THEN {"event_loop", "window"}
    ELSE Steps

\* The variables of the button.
button_vars == <<position, size, overlay_alpha, z_index, hovered, pressed,
                 slots, sprite, text, called, ret, last_event, cursor,
                 hovered_at_press, setter_calls, planned, nest>>

\* WindowApp::new
new(hooks, env) ==
    /\ app.result = "none"
    /\ app' = [result |-> NewResult(env), env |-> env,
               built |-> NewBuilt(env),
               hooks |-> IF NewResult(env) = "Ok" THEN hooks ELSE {},
               event |-> "None", calls |-> <<>>]
    /\ UNCHANGED button_vars

\* if let Some(fun) = self.<hook> { fun(self) }
CallHook(hook) == IF hook \in app.hooks THEN <<hook>> ELSE <<>>

\* WindowApp::draw
draw == CallHook("on_before_draw") \o <<"renderer.draw">>
        \o CallHook("on_after_draw")

\* Variant: every event draws a frame.
MatchEventAlwaysDraws(event) == draw

\* The match on the event in window_event.
MatchEvent(event) ==
    IF event = "CloseRequested" THEN <<"log", "event_loop.exit">>
    ELSE IF event = "RedrawRequested" THEN draw
    ELSE <<>>

\* WindowApp::window_event
window_event(event) ==
    /\ app.result = "Ok"
    /\ app' = [app EXCEPT
                 !.event = event,
                 !.calls = CallHook("on_before_events") \o MatchEvent(event)
                           \o <<"window.request_redraw">>
                           \o CallHook("on_after_events")]
    /\ UNCHANGED button_vars

AppNext ==
    \/ \E hooks \in SUBSET HookNames, env \in SUBSET Steps : new(hooks, env)
    \/ \E event \in AppEvents : window_event(event)

AppSpec == Init /\ [][AppNext]_vars

----------------------------------------------------------------------------
(* Callbacks that call consume_event. *)

\* A button whose callbacks call consume_event on the button they are given.
ReentrantInit ==
    /\ ButtonNew
    /\ nest \in {[NoNesting EXCEPT !.mode = mode] :
                    mode \in {"same", "opposite"}}
    /\ app = NoApp

\* The event loop delivers an event when no call is running; a callback
\* that runs delivers its own inside the call that invoked it.
ReentrantNext ==
    \/ /\ nest.depth = 0
       /\ \E event \in Events : consume_event(event)
    \/ /\ nest.depth \in 1..(MaxDepth - 1)
       /\ consume_event(nest.pending)

ReentrantSpec == ReentrantInit /\ [][ReentrantNext]_vars

----------------------------------------------------------------------------
(* Properties. *)

\* Number of the flags hovered and pressed that are set.
FlagCount == (IF hovered THEN 1 ELSE 0) + (IF pressed THEN 1 ELSE 0)

\* p lies within [origin, origin + extent], bounds included, in exact
\* arithmetic.
Within(p, origin, extent) ==
    /\ origin.x <= p.x
    /\ p.x <= origin.x + extent.x
    /\ origin.y <= p.y
    /\ p.y <= origin.y + extent.y

\* p, narrowed to f32, lies within [origin, origin + extent], bounds
\* included, the sum taken in f32.
WithinF32(p, origin, extent) ==
    /\ origin.x <= AsF32(p.x)
    /\ AsF32(p.x) <= AsF32(origin.x + extent.x)
    /\ origin.y <= AsF32(p.y)
    /\ AsF32(p.y) <= AsF32(origin.y + extent.y)

PressLeft == MouseInput("Pressed", "Left")

ReleaseLeft == MouseInput("Released", "Left")

\* The step is consume_event(event): no other operation leaves an event
\* in last_event.
Delivers(event) == last_event' = event

\* The step is a call of consume_event.
AnyEvent == last_event' # NoEvent

\* The step is a call of a setter: no other operation counts one.
AnySetter == setter_calls' # setter_calls

\* The step is a call of update.
AnyUpdate == last_event' = NoEvent /\ setter_calls' = setter_calls

TargetsUnchanged ==
    /\ position'.target = position.target
    /\ size'.target = size.target
    /\ overlay_alpha'.target = overlay_alpha.target

CurrentsUnchanged ==
    /\ position'.current = position.current
    /\ size'.current = size.current
    /\ overlay_alpha'.current = overlay_alpha.current

\* C1: in every reachable state, hovered is true iff a CursorMoved event
\* has been delivered and the position of the most recent one lies within
\* [position.current, position.current + size.current], bounds included
\* (the comparison being the f32 one of the hit test).
C1_HoveredIffCursorInside ==
    hovered <=> /\ cursor # <<>>
                /\ WithinF32(cursor[1], position.current, size.current)

\* C2: consume_event returns true exactly when hovered or pressed flipped,
\* the overlay target then having moved by one step, and returns false
\* exactly when hovered, pressed and the three targets are unchanged.
C2_ConsumedIffMutated ==
    [][AnyEvent =>
        /\ ret' <=> (hovered' # hovered \/ pressed' # pressed)
        /\ ret' => \/ overlay_alpha'.target = overlay_alpha.target + OverlayStep
                   \/ overlay_alpha'.target = overlay_alpha.target - OverlayStep
        /\ ~ret' <=> (UNCHANGED <<hovered, pressed>> /\ TargetsUnchanged)]_vars

\* A hover exit has just been consumed.
C2_Witness ==
    /\ last_event.kind = "CursorMoved"
    /\ ret
    /\ ~hovered
    /\ overlay_alpha.target = 0

\* C3: a left-button press delivered while hovered is false returns false,
\* leaves pressed and every other field as it was (false stays false) and
\* runs no callback; and whenever pressed is true, hovered was true when
\* the press that set it was delivered.
C3_PressRequiresHover ==
    /\ [](pressed => hovered_at_press)
    /\ [][(~hovered /\ Delivers(PressLeft)) =>
            /\ ret' = FALSE
            /\ called' = <<>>
            /\ ~pressed => ~pressed'
            /\ UNCHANGED <<position, size, overlay_alpha, z_index, hovered,
                           pressed, slots, sprite, text>>]_vars

\* A left-button press has just been ignored with the cursor off the button.
C3_Witness ==
    /\ last_event = PressLeft
    /\ ~hovered
    /\ ~pressed
    /\ ~ret
    /\ cursor # <<>>

\* C4: whenever pressed is true, a left-button release clears pressed,
\* lowers the overlay target by one step and is consumed, whatever hovered
\* is.
C4_ReleaseClearsPressed ==
    [][(pressed /\ Delivers(ReleaseLeft)) =>
        /\ pressed' = FALSE
        /\ overlay_alpha'.target = overlay_alpha.target - OverlayStep
        /\ ret' = TRUE]_vars

\* A release has just been consumed with the cursor off the button.
C4_Witness ==
    /\ last_event = ReleaseLeft
    /\ ret
    /\ ~pressed
    /\ ~hovered
    /\ overlay_alpha.target = 0

\* C5: from hovered = false, a CursorMoved inside the rectangle is consumed
\* (hovered set, one step added, on_enter called once if populated); the
\* same position delivered again right after it is not consumed and
\* changes nothing and calls nothing.
C5_HoverIdempotent ==
    [][/\ (/\ ~hovered
           /\ last_event'.kind = "CursorMoved"
           /\ WithinF32(last_event'.position, position.current, size.current))
          => /\ hovered'
             /\ ret'
             /\ overlay_alpha'.target = overlay_alpha.target + OverlayStep
             /\ called' = Invoke("on_enter")
       /\ (/\ last_event.kind = "CursorMoved"
           /\ ret
           /\ hovered
           /\ Delivers(last_event))
          => /\ ret' = FALSE
             /\ called' = <<>>
             /\ UNCHANGED <<position, size, overlay_alpha, z_index, hovered,
                            pressed, slots, sprite, text>>]_vars

\* The button rests at (8,4), where (8,4) is the only cursor position on it;
\* the cursor entered there after the move, and the same position delivered
\* again was not consumed.
C5_Witness ==
    /\ position = AnimatedNew(Vec(8, 4), GeometryDuration)
    /\ size = AnimatedNew(Vec(8, 4), GeometryDuration)
    /\ setter_calls = 1
    /\ last_event = CursorMoved(Vec(8, 4))
    /\ ~ret
    /\ hovered
    /\ ~pressed
    /\ overlay_alpha.current = 0
    /\ overlay_alpha.target = OverlayStep

\* C6 as stated: after a CursorMoved event, hovered is true iff the cursor
\* lies within [position.current, position.current + size.current], bounds
\* included, and a cursor strictly beyond an edge is outside.
C6_HitTestExact ==
    last_event.kind = "CursorMoved" =>
        (hovered <=> Within(last_event.position, position.current, size.current))

\* C6: after a CursorMoved event, hovered is true iff the cursor, narrowed
\* to f32, lies within [position.current, position.current + size.current]
\* (targets play no part), bounds included, the far edges being the f32
\* sums; a cursor on or inside the edges in exact arithmetic is inside.
C6_HitTestCurrentInclusive ==
    last_event.kind = "CursorMoved" =>
        /\ hovered <=>
             WithinF32(last_event.position, position.current, size.current)
        /\ Within(last_event.position, position.current, size.current)
             => hovered

\* The cursor is on the corner of the rectangle the button is leaving, and
\* outside the rectangle it is moving to.
C6_Witness ==
    /\ last_event = CursorMoved(Vec(0, 0))
    /\ hovered
    /\ position.current = Vec(0, 0)
    /\ position.target = Vec(8, 4)

\* C7: with callbacks that leave the overlay alone, the overlay target is
\* the initial 0.0 plus one 0.1 step for each of hovered and pressed that
\* is true.
C7_OverlayTargetCountsFlags ==
    overlay_alpha.target = OverlayStep * FlagCount

\* After enter, press and release the button is hovered with one step left.
C7_Witness ==
    /\ last_event = ReleaseLeft
    /\ ret
    /\ hovered
    /\ ~pressed
    /\ overlay_alpha.target = OverlayStep

\* C8: a MouseInput of a button other than the left one, and an event of
\* any kind other than CursorMoved and MouseInput, returns false, leaves
\* hovered, pressed and the three animated values as they were and runs no
\* callback.
C8_OtherEventsIgnored ==
    [][\A event \in Events :
        (/\ \/ event.kind = "MouseInput" /\ event.button # "Left"
            \/ event.kind \notin {"CursorMoved", "MouseInput"}
         /\ Delivers(event))
        => /\ ret' = FALSE
           /\ called' = <<>>
           /\ UNCHANGED <<hovered, pressed, position, size, overlay_alpha>>]_vars

\* A right-button press has just been ignored with the cursor on the button.
C8_Witness ==
    /\ last_event = MouseInput("Pressed", "Right")
    /\ hovered
    /\ ~pressed
    /\ ~ret
    /\ called = <<>>

\* C9: the press transition calls the on_press callback and the release
\* transition calls the on_release callback, when populated.
C9_CallbackMatchesName ==
    /\ (ret /\ last_event = PressLeft) => called = Invoke("on_press")
    /\ (ret /\ last_event = ReleaseLeft) => called = Invoke("on_release")

\* C10: update runs no callback and changes neither hovered, nor pressed,
\* nor a target; consume_event and the setters change no current value.
C10_UpdateAndSettersDisjoint ==
    [][/\ AnyUpdate => /\ called' = <<>>
                       /\ UNCHANGED <<hovered, pressed>>
                       /\ TargetsUnchanged
       /\ (AnyEvent \/ AnySetter) => CurrentsUnchanged]_vars

\* The position was given a new target half way to the previous one, and
\* still is where it was.
C10_Witness ==
    /\ position.current = Vec(4, 2)
    /\ position.start = Vec(4, 2)
    /\ position.elapsed = 0
    /\ position.target = Vec(12, 8)

\* C11: set_position_offset(d) and set_size_offset(d) add d to the target
\* the animation already has, not to the value it has reached: the target
\* is at every moment what the setter calls so far add up to (the last
\* absolute target, or the constructed one, plus every offset given since),
\* whatever update calls came in between; update changes no target, and a
\* setter call changes no current value.
C11_OffsetsAddToTarget ==
    /\ [](position.target = planned.position /\ size.target = planned.size)
    /\ [][AnyUpdate => TargetsUnchanged]_vars
    /\ [][AnySetter => CurrentsUnchanged]_vars

\* Offset (4, 4), half of the animation, then offset (-4, 0): the target is
\* (0, 0) + (4, 4) + (-4, 0) and the position is still halfway to (4, 4).
C11_Witness ==
    /\ setter_calls = 2
    /\ position.target = Vec(0, 4)
    /\ position.current = Vec(2, 2)
    /\ position.elapsed = 0

\* C13: in every state reachable by construction, the setters and update,
\* the sprite and the label text alike show the current animated values:
\* the sprite's position, size and overlay alpha and the text's position
\* and size equal position.current, size.current and overlay_alpha.current.
C13_SpriteAndTextFollowCurrent ==
    /\ sprite.position = position.current
    /\ sprite.size = size.current
    /\ sprite.overlay_alpha = overlay_alpha.current
    /\ text.position = position.current
    /\ text.size = size.current

\* C18: the z-index the button stores equals the one its sprite has, and
\* the label text stays one below it, as at construction, whatever
\* set_z_index calls were made.
C18_ZIndexAgrees ==
    /\ z_index = sprite.z_index
    /\ text.z = sprite.z_index - 1

\* The callbacks a call of consume_event runs when its transition reads
\* the slot `slot`: that one, once, if a callback was given for it.
Populated(slot) == IF slot \in slots THEN <<slot>> ELSE <<>>

\* C15: a consumed event invokes one callback slot, once, and only if it
\* is populated; an event that is not consumed invokes none.  The slot is
\* on_enter on hover-enter, on_exit on hover-exit, the one named
\* on_release when a press begins and the one named on_press when it ends.
C15_OneSlotPerConsumedEvent ==
    IF ~ret THEN called = <<>>
    ELSE IF last_event.kind = "CursorMoved"
         THEN called = Populated(IF hovered THEN "on_enter" ELSE "on_exit")
         ELSE /\ last_event.kind = "MouseInput"
              /\ called = Populated(IF last_event.state = "Pressed"
                                    THEN "on_release" ELSE "on_press")

\* A press begins on a button given all four callbacks.
C15_Witness ==
    /\ ret
    /\ last_event = PressLeft
    /\ pressed
    /\ called = <<"on_release">>

\* C17: a left-button event that matches no transition is ignored:
\* a release while pressed is false, and a press while pressed is true
\* (hovered or not), return false, leave hovered, pressed and the overlay
\* animation as they are and invoke no callback.  So a press is consumed
\* only when pressed is false and a release only when it is true: the two
\* transitions alternate.
C17_UnmatchedLeftEventsIgnored ==
    [][/\ (\/ Delivers(ReleaseLeft) /\ ~pressed
           \/ Delivers(PressLeft) /\ pressed)
          => /\ ret' = FALSE
             /\ called' = <<>>
             /\ UNCHANGED <<hovered, pressed, overlay_alpha>>
       /\ (Delivers(PressLeft) /\ (ret' \/ pressed' # pressed))
          => ~pressed /\ pressed'
       /\ (Delivers(ReleaseLeft) /\ (ret' \/ pressed' # pressed))
          => pressed /\ ~pressed'
       /\ pressed' # pressed
          => Delivers(PressLeft) \/ Delivers(ReleaseLeft)]_vars

\* A second press arrives while the button is held and the cursor has
\* left it.
C17_Witness ==
    /\ last_event = PressLeft
    /\ pressed
    /\ ~ret
    /\ ~hovered

AllComplete ==
    /\ AnimatedComplete(position)
    /\ AnimatedComplete(size)
    /\ AnimatedComplete(overlay_alpha)

\* What update(elapsed) makes of the animation `a`, namely `b`: nothing if
\* it is complete; the target, and complete, if the time accumulated since
\* the target was set reaches the duration; otherwise that much more time.
Settles(a, b, elapsed) ==
    /\ AnimatedComplete(a) => b = a
    /\ a.elapsed + elapsed >= a.duration
       => AnimatedComplete(b) /\ b.current = a.target /\ b.target = a.target
    /\ ~AnimatedComplete(a) /\ a.elapsed + elapsed < a.duration
       => b.elapsed = a.elapsed + elapsed /\ b.target = a.target

\* C12: position and size animate over 200 ms and the overlay over 100 ms.
\* A call of update whose elapsed time brings the time accumulated since
\* the last change of target up to the duration leaves current equal to
\* target, and update is a no-op on a complete animation.  With update
\* called frame after frame, either calls that change a target keep coming
\* or the three animations all become complete and stay so.
C12_AnimationsComplete ==
    /\ [](/\ position.duration = 200
          /\ size.duration = 200
          /\ overlay_alpha.duration = 100)
    /\ [][AnyUpdate
          => \A elapsed \in Elapsed :
                update(elapsed)
                => /\ Settles(position, position', elapsed)
                   /\ Settles(size, size', elapsed)
                   /\ Settles(overlay_alpha, overlay_alpha', elapsed)]_vars
    /\ [][AnyUpdate /\ AllComplete
          => UNCHANGED <<position, size, overlay_alpha, sprite>>]_vars
    /\ ([]<><<~TargetsUnchanged>>_vars) \/ (<>[]AllComplete)

\* A position animation brought to its target by two frames of 100 ms.
C12_Witness ==
    /\ AllComplete
    /\ position.current = Vec(8, 4)
    /\ sprite.position = Vec(8, 4)
    /\ size.current = Vec(Far, 4)
    /\ last_event = NoEvent

\* C16 as stated: hover and press toggling drives the target of the overlay
\* animation out of the range of zero to two steps, below 0 or above 0.2.
C16_TogglingLeavesRange ==
    <>(overlay_alpha.target < 0 \/ overlay_alpha.target > 2 * OverlayStep)

\* C16, amended: no sequence of CursorMoved and left-button events drives
\* the target of the overlay animation out of the range of zero to two
\* steps: each step up or down is guarded by the flag it flips.
C16_TogglingStaysInRange ==
    /\ 0 <= overlay_alpha.target
    /\ overlay_alpha.target <= 2 * OverlayStep

\* Entered, pressed, left and released outside: the target is back on the
\* lower end of the range, where a further exit or release would take it
\* below.
C16_Witness ==
    /\ last_event = ReleaseLeft
    /\ ret
    /\ ~hovered
    /\ hovered_at_press
    /\ overlay_alpha.target = 0

\* The transition whose callback is running has been made: the flag is
\* flipped and the overlay animation retargeted.
PostTransition ==
    /\ Len(called) = 1
    /\ called[1] = "on_enter" => hovered
    /\ called[1] = "on_exit" => ~hovered
    /\ called[1] = "on_release" => pressed
    /\ called[1] = "on_press" => ~pressed
    /\ overlay_alpha.target = FlagCount * OverlayStep
    /\ overlay_alpha.start = overlay_alpha.current
    /\ overlay_alpha.elapsed = 0

\* C20: consume_event flips the flag and retargets the overlay before it
\* invokes the callback, so the callback sees the state after the
\* transition.  A callback that hands the same event to the same button
\* again gets false back, with no second transition and no further
\* callback: one nested call and no more.  Callbacks that hand over the
\* opposite event (exit in on_enter and enter in on_exit, release in the
\* press callback and press in the release callback, the cursor on the
\* button) open a further nested call each time.
C20_ReentrantCallbacks ==
    /\ [](nest.depth >= 1 => ret /\ PostTransition)
    /\ [](nest.mode = "same" => nest.depth <= 1 /\ nest.nested_calls <= 1)
    /\ [][nest.mode = "same" /\ nest.depth = 1
          => /\ last_event' = last_event
             /\ ret' = FALSE
             /\ called' = <<>>
             /\ UNCHANGED <<hovered, pressed, overlay_alpha>>
             /\ nest'.depth = 0]_vars
    /\ [][(/\ nest.mode = "opposite"
           /\ nest.depth >= 1
           /\ slots = CallbackNames
           /\ nest.pending.kind = "CursorMoved" \/ hovered)
          => /\ ret'
             /\ Len(called') = 1
             /\ nest'.depth = nest.depth + 1]_vars

\* on_enter handed the CursorMoved event that invoked it to the button
\* again: the nested call has returned false.
C20_Witness ==
    /\ nest.mode = "same"
    /\ nest.depth = 0
    /\ nest.nested_calls = 1
    /\ last_event.kind = "CursorMoved"
    /\ hovered
    /\ ~ret
    /\ overlay_alpha.target = OverlayStep

\* Callbacks handing over the opposite event have nested as many calls as
\* are followed.
OppositeNestsToBound ==
    /\ nest.mode = "opposite"
    /\ nest.depth = MaxDepth

\* C14: WindowApp::new never panics on a construction failure and returns
\* no partially built application: Err(EventLoopCreation) when the event
\* loop cannot be created, Err(RendererCreation) when event loop and window
\* were created and the renderer cannot be, and Ok only when event loop,
\* window and renderer were all created.
C14_NewReturnsResult ==
    app.result # "none"
    => /\ app.result \in {"Ok", "Err(EventLoopCreation)",
                          "Err(RendererCreation)"}
       /\ "event_loop" \notin app.env
          => app.result = "Err(EventLoopCreation)"
       /\ {"event_loop", "window"} \subseteq app.env
          /\ "renderer" \notin app.env
          => app.result = "Err(RendererCreation)"
       /\ app.result = "Ok" => app.env = Steps /\ app.built = Steps

\* The place of a call in the order window_event makes its calls in.
Rank(call) ==
    CASE call = "on_before_events" -> 1
      [] call = "log" -> 2
      [] call = "event_loop.exit" -> 3
      [] call = "on_before_draw" -> 2
      [] call = "renderer.draw" -> 3
      [] call = "on_after_draw" -> 4
      [] call = "window.request_redraw" -> 5
      [] call = "on_after_events" -> 6

Calls == {app.calls[i] : i \in 1..Len(app.calls)}

\* C19: for every window event the calls of window_event come in a fixed
\* order, each at most once: on_before_events, the handling of the event,
\* the redraw request, on_after_events, the hooks only if given.  The
\* handling of RedrawRequested is on_before_draw, renderer.draw,
\* on_after_draw; no other event runs a draw hook or renderer.draw.
\* CloseRequested requests the exit of the event loop, and still the redraw
\* request and on_after_events follow.
C19_HookOrder ==
    app.event # "None"
    => /\ \A i, j \in 1..Len(app.calls) :
            i < j => Rank(app.calls[i]) < Rank(app.calls[j])
       /\ \A hook \in {"on_before_events", "on_after_events"} :
            hook \in Calls <=> hook \in app.hooks
       /\ \A hook \in {"on_before_draw", "on_after_draw"} :
            hook \in Calls
            <=> app.event = "RedrawRequested" /\ hook \in app.hooks
       /\ "renderer.draw" \in Calls <=> app.event = "RedrawRequested"
       /\ "event_loop.exit" \in Calls <=> app.event = "CloseRequested"
       /\ "window.request_redraw" \in Calls

\* CloseRequested handled by an application given all four hooks.
C19_Witness ==
    /\ app.hooks = HookNames
    /\ app.event = "CloseRequested"
    /\ app.calls = <<"on_before_events", "log", "event_loop.exit",
                     "window.request_redraw", "on_after_events">>

====
